---- MODULE Spec2Model ----
(***************************************************************************)
(* RockEssentialsGroundConstructor: run / _load_shader /                   *)
(* _construct_ground_plane / _create_node as a state machine over the      *)
(* host application's registries (objects, materials, node groups,         *)
(* textures), its active object and its interaction mode.                  *)
(*                                                                         *)
(* Host data blocks are identified by their position in the registry       *)
(* sequence (a data block is never deleted by this module), nodes of a     *)
(* node tree by their name, which the host keeps unique within the tree.   *)
(* The field created_by of a data block is a history field: the index of   *)
(* the tile whose call created it, 0 for data present before run.          *)
(***************************************************************************)
EXTENDS Integers, Sequences, FiniteSets, TLC

\* Longest "tiles" list explored.
MaxTiles == 2

(***************************************************************************)
(* Configuration values                                                    *)
(***************************************************************************)

\* Default arguments of the get_* calls of _construct_ground_plane.
DefaultPlaneScale == <<1, 1, 1>>
DefaultSubdivisionCuts == 50
DefaultSubdivisionRenderLevels == 3
DefaultDisplacementStrength == 1
DefaultTileName == "RE_ground_plane"
DefaultAO == <<1, 1, 1, 1>>

\* Defaults stated by the class docstring.
DocPlaneScale == <<10, 10, 1>>
DocSubdivisionCuts == 50
DocSubdivisionRenderLevels == 3
DocDisplacementStrength == 1
DocTileName == "RE_ground_plane"
DocAO == <<1, 1, 1, 1>>

\* The asset files a shader_path may name, and whether the file's NodeTree
\* section holds a group called "PBR Rock Shader".
ShaderPaths == {"rocks_a.blend", "rocks_b.blend", "no_group.blend"}
LibraryHasShader(shader_path) == shader_path # "no_group.blend"

\* The value a tile supplies for a key when it supplies that key.
Supplied ==
  [ plane_scale |-> <<2, 3, 1>>,
    subdivision_cuts |-> 4,
    subdivision_render_levels |-> 2,
    displacement_strength |-> 5,
    tile_name |-> "rocks",
    AO |-> <<0, 0, 0, 1>> ]

ValueKeys == {"plane_scale", "subdivision_cuts", "subdivision_render_levels",
              "displacement_strength", "AO"}

\* A tile supplies none of the optional value keys, all of them, or some.
SomeKeys == {"plane_scale", "subdivision_render_levels", "AO"}

TileWith(keys, shader_path) ==
  [k \in keys \cup {"shader_path"} |->
     IF k = "shader_path" THEN shader_path ELSE Supplied[k]]

\* The same tile under another tile_name.
Renamed(tile, tile_name) == [tile EXCEPT !["tile_name"] = tile_name]

\* The names a tile may give itself.
TileNames == {"rocks", "gravel"}

EmptyTile == [k \in {} |-> 0]

\* The tiles a "tiles" list is made of: the empty entry, an entry without
\* shader_path, and entries over the asset files, without tile_name and
\* under either name, with and without the optional value keys.
TileChoices ==
  {EmptyTile}
  \cup {[k \in {"tile_name"} |-> Supplied[k]]}
  \cup {TileWith(ks \cup nm, p) :
          ks \in {{}, ValueKeys}, nm \in {{}, {"tile_name"}},
          p \in {"rocks_a.blend", "rocks_b.blend"}}
  \cup {TileWith(SomeKeys, "rocks_a.blend"),
        Renamed(TileWith(SomeKeys \cup {"tile_name"}, "rocks_b.blend"), "gravel")}
  \cup {TileWith(nm, "no_group.blend") : nm \in {{}, {"tile_name"}}}

TileLists == UNION {[1..n -> TileChoices] : n \in 0..MaxTiles}

(***************************************************************************)
(* Config                                                                  *)
(***************************************************************************)

\* Config.get_*(key, fallback)
ConfigGet(tile, key, fallback) ==
  IF key \in DOMAIN tile THEN tile[key] ELSE fallback

\* Config.get_*(key) without fallback raises when the key is missing.
ConfigHas(tile, key) == key \in DOMAIN tile

(***************************************************************************)
(* Host helpers                                                            *)
(***************************************************************************)

Suffixes == <<".001", ".002", ".003", ".004", ".005", ".006", ".007", ".008">>

\* The host keeps names unique within a registry: a taken name gets the
\* first free numeric suffix.
UniqueName(base, used) ==
  IF base \notin used THEN base
  ELSE LET k == CHOOSE k \in 1..Len(Suffixes) :
                  /\ (base \o Suffixes[k]) \notin used
                  /\ \A j \in 1..(k - 1) : (base \o Suffixes[j]) \in used
       IN base \o Suffixes[k]

SeqNames(s) == {s[j].name : j \in 1..Len(s)}

HasName(s, name) == \E j \in 1..Len(s) : s[j].name = name

\* registry[name]: the data block carrying exactly that name.
IndexByName(s, name) == CHOOSE j \in 1..Len(s) : s[j].name = name

RemoveAt(s, j) == SubSeq(s, 1, j - 1) \o SubSeq(s, j + 1, Len(s))

NodeLabel(type) ==
  CASE type = "ShaderNodeGroup" -> "Group"
    [] type = "ShaderNodeTexImage" -> "Image Texture"
    [] type = "ShaderNodeNormalMap" -> "Normal Map"
    [] type = "ShaderNodeBsdfPrincipled" -> "Principled BSDF"
    [] type = "ShaderNodeOutputMaterial" -> "Material Output"

NewNode(nodes, type) ==
  [ name |-> UniqueName(NodeLabel(type), SeqNames(nodes)),
    type |-> type, label |-> "", node_tree |-> 0, ao |-> <<>> ]

\* nodes.new(type): the new node goes to the end of the collection.
nodes_new(nodes, type) == Append(nodes, NewNode(nodes, type))

Link(fn, fs, tn, ts) ==
  [from_node |-> fn, from_socket |-> fs, to_node |-> tn, to_socket |-> ts]

\* links.new(output, input): an input socket holds one link, a new link
\* into it replaces the one it had.
links_new(links, fn, fs, tn, ts) ==
  {l \in links : ~(l.to_node = tn /\ l.to_socket = ts)} \cup {Link(fn, fs, tn, ts)}

\* Utility.get_nodes_with_type(nodes, type): positions of the nodes whose
\* type identifier contains the given word, in collection order.
get_nodes_with_type(nodes, word) ==
  LET hit(j) == nodes[j].type = ("ShaderNode" \o word)
      RECURSIVE from(_)
      from(j) == IF j > Len(nodes) THEN <<>>
                 ELSE (IF hit(j) THEN <<j>> ELSE <<>>) \o from(j + 1)
  IN from(1)

\* material.use_nodes = True: the default tree.
DefaultNodeTree ==
  LET n1 == nodes_new(<<>>, "ShaderNodeBsdfPrincipled")
      n2 == nodes_new(n1, "ShaderNodeOutputMaterial")
  IN [ nodes |-> n2,
       links |-> {Link("Principled BSDF", "BSDF", "Material Output", "Surface")} ]

\* nodes.remove(node): the node goes, and every link at one of its sockets.
nodes_remove(tree, j) ==
  LET nm == tree.nodes[j].name
  IN [ nodes |-> RemoveAt(tree.nodes, j),
       links |-> {l \in tree.links : l.from_node # nm /\ l.to_node # nm} ]


\* _create_node reading the last node where the source reads the one
\* before the last (nodes[-1] for nodes[-2]) for the normal map's input.
create_node_last(tree, map_type, in_point) ==
  LET nodes1 == nodes_new(tree.nodes, "ShaderNodeTexImage")
      a_tex == nodes1[IndexByName(nodes1, nodes1[Len(nodes1)].name)].name
      nodes2 == [nodes1 EXCEPT ![Len(nodes1)].label = map_type]
      normal == (map_type = "normal")
      nodes3 == IF normal THEN nodes_new(nodes2, "ShaderNodeNormalMap") ELSE nodes2
      group_norm_map == nodes3[Len(nodes3)].name
      a_norm == nodes3[IndexByName(nodes3, nodes3[Len(nodes3)].name)].name
      links1 == IF normal
                THEN links_new(tree.links, a_norm, "Color", group_norm_map, "Color")
                ELSE tree.links
      a == IF normal
           THEN <<nodes3[IndexByName(nodes3, nodes3[Len(nodes3)].name)].name, "Normal">>
           ELSE <<a_tex, "Color">>
      b == nodes3[IndexByName(nodes3, "Group")].name
  IN [ nodes |-> nodes3, links |-> links_new(links1, a[1], a[2], b, in_point) ]

\* _create_node(nodes, links, map_type, in_point) on the tree of a material.
create_node(tree, map_type, in_point) ==
  LET nodes1 == nodes_new(tree.nodes, "ShaderNodeTexImage")
      a_tex == nodes1[IndexByName(nodes1, nodes1[Len(nodes1)].name)].name
      nodes2 == [nodes1 EXCEPT ![Len(nodes1)].label = map_type]
      normal == (map_type = "normal")
      nodes3 == IF normal THEN nodes_new(nodes2, "ShaderNodeNormalMap") ELSE nodes2
      group_norm_map == nodes3[Len(nodes3)].name
      a_norm == nodes3[IndexByName(nodes3, nodes3[Len(nodes3) - 1].name)].name
      links1 == IF normal
                THEN links_new(tree.links, a_norm, "Color", group_norm_map, "Color")
                ELSE tree.links
      a == IF normal
           THEN <<nodes3[IndexByName(nodes3, nodes3[Len(nodes3)].name)].name, "Normal">>
           ELSE <<a_tex, "Color">>
      b == nodes3[IndexByName(nodes3, "Group")].name
  IN [ nodes |-> nodes3, links |-> links_new(links1, a[1], a[2], b, in_point) ]

\* The four _create_node calls of _construct_ground_plane, in order.
NodeCalls ==
  << <<"color", "Color">>, <<"roughness", "Roughness">>,
     <<"reflection", "Reflection">>, <<"normal", "Normal">> >>

\* modifiers[name] of an object
ModIndex(mods, name) == CHOOSE j \in 1..Len(mods) : mods[j].name = name

NewModifier(mods, type) ==
  IF type = "SUBSURF"
  THEN [ name |-> UniqueName("Subdivision", SeqNames(mods)), type |-> type,
         render_levels |-> 2, strength |-> 0, texture |-> 0, texture_coords |-> "" ]
  ELSE [ name |-> UniqueName("Displace", SeqNames(mods)), type |-> type,
         render_levels |-> 0, strength |-> 1, texture |-> 0, texture_coords |-> "LOCAL" ]

\* A second mode_set(mode='EDIT') where the source toggles.
editmode_toggle_edit(m) == "EDIT"

\* bpy.ops.object.editmode_toggle()
editmode_toggle(m) == IF m = "EDIT" THEN "OBJECT" ELSE "EDIT"

\* bpy.ops.object.mode_set(mode=target)
mode_set(m, target) == target

\* The loop of run without its `if tile:` test.
TileIsTruthy_always(tile) == TRUE

\* `if tile:` an empty mapping is falsy.
TileIsTruthy(tile) == DOMAIN tile # {}

VecMul(u, v) == <<u[1] * v[1], u[2] * v[2], u[3] * v[3]>>

NoProps == [k \in {} |-> FALSE]

\* A mesh object some earlier module left in the scene.
SceneObject(name) ==
  [ name |-> name, created_by |-> 0, scale |-> <<1, 1, 1>>, mesh_scale |-> <<1, 1, 1>>,
    materials |-> <<>>, cuts |-> 0, modifiers |-> <<>>, props |-> NoProps,
    select |-> FALSE ]

\* The names under which the scene may already hold an object, or (with
\* "_texture" appended) a texture, when run starts.
SceneNames == {DefaultTileName, "rocks"}

SceneTexture(name) == [ name |-> name, type |-> "IMAGE", created_by |-> 0 ]

NoLocal ==
  [ plane_scale |-> <<>>, subdivision_cuts |-> 0, subdivision_render_levels |-> 0,
    displacement_strength |-> 0, tile_name |-> "", ao |-> <<>>,
    plane_obj |-> 0, mat_obj |-> 0, group_pbr |-> "", output_node |-> "",
    texture_name |-> "", texture |-> 0, call |-> 0 ]

(***************************************************************************)
(* State                                                                   *)
(***************************************************************************)

VARIABLES
  tiles,        \* self.config.get_list("tiles", [])
  i,            \* position of the loop of run in tiles
  pc,           \* statement about to execute
  local,        \* local variables of _construct_ground_plane
  objects,      \* bpy.data.objects
  active,       \* bpy.context.object
  mode,         \* host interaction mode
  materials,    \* bpy.data.materials
  node_groups,  \* bpy.data.node_groups
  textures,     \* bpy.data.textures
  log,          \* history: the calls run has made
  err           \* the exception that left run, "" if none

host == <<objects, active, mode, materials, node_groups, textures>>
vars == <<tiles, i, pc, local, host, log, err>>

Init ==
  /\ tiles \in TileLists
  /\ i = 1
  /\ pc = "loop"
  /\ local = NoLocal
  /\ objects \in {<<>>} \cup {<<SceneObject(n)>> : n \in SceneNames}
  /\ active = 0
  /\ mode = "OBJECT"
  /\ materials = <<>>
  /\ node_groups = <<>>
  /\ textures \in {<<>>} \cup {<<SceneTexture(n \o "_texture")>> : n \in SceneNames}
  /\ log = <<>>
  /\ err = ""

Raise(e) == pc' = "error" /\ err' = e

(***************************************************************************)
(* run                                                                     *)
(***************************************************************************)

\* for tile in tiles: if tile: ...
RunTile ==
  /\ pc = "loop" /\ i <= Len(tiles) /\ TileIsTruthy(tiles[i])
  /\ pc' = "load_shader"
  /\ UNCHANGED <<tiles, i, local, host, log, err>>

RunSkipTile ==
  /\ pc = "loop" /\ i <= Len(tiles) /\ ~TileIsTruthy(tiles[i])
  /\ i' = i + 1
  /\ UNCHANGED <<tiles, pc, local, host, log, err>>

RunReturn ==
  /\ pc = "loop" /\ i > Len(tiles)
  /\ pc' = "done"
  /\ UNCHANGED <<tiles, i, local, host, log, err>>

(***************************************************************************)
(* _load_shader                                                            *)
(***************************************************************************)

\* bpy.ops.wm.append(...): a copy of the file's group joins the registry,
\* under a unique name; a file without the group adds nothing.
wm_append(groups, shader_path, tile) ==
  IF LibraryHasShader(shader_path)
  THEN Append(groups, [ name |-> UniqueName("PBR Rock Shader", SeqNames(groups)),
                        library |-> shader_path, created_by |-> tile ])
  ELSE groups

LoadShader ==
  /\ pc = "load_shader"
  /\ IF ConfigHas(tiles[i], "shader_path")
     THEN /\ node_groups' = wm_append(node_groups, tiles[i]["shader_path"], i)
          /\ log' = Append(log, [op |-> "load", tile |-> i])
          /\ pc' = "get_settings"
          /\ UNCHANGED err
     ELSE /\ Raise("shader_path")
          /\ UNCHANGED <<node_groups, log>>
  /\ UNCHANGED <<tiles, i, local, objects, active, mode, materials, textures>>

(***************************************************************************)
(* _construct_ground_plane                                                 *)
(***************************************************************************)

\* The configuration reads at the head of _construct_ground_plane.
GetSettings ==
  /\ pc = "get_settings"
  /\ local' = [ NoLocal EXCEPT
       !.plane_scale = ConfigGet(tiles[i], "plane_scale", DefaultPlaneScale),
       !.subdivision_cuts = ConfigGet(tiles[i], "subdivision_cuts", DefaultSubdivisionCuts),
       !.subdivision_render_levels =
          ConfigGet(tiles[i], "subdivision_render_levels", DefaultSubdivisionRenderLevels),
       !.displacement_strength =
          ConfigGet(tiles[i], "displacement_strength", DefaultDisplacementStrength),
       !.tile_name = ConfigGet(tiles[i], "tile_name", DefaultTileName),
       !.ao = ConfigGet(tiles[i], "AO", DefaultAO) ]
  /\ log' = Append(log, [op |-> "construct", tile |-> i])
  /\ pc' = "plane_add"
  /\ UNCHANGED <<tiles, i, host, err>>

\* bpy.ops.mesh.primitive_plane_add(): in object mode a new mesh object
\* "Plane" becomes the active and the only selected object; in edit mode
\* the geometry joins the mesh being edited and no object is created.
PrimitivePlaneAdd ==
  /\ pc = "plane_add"
  /\ IF mode = "OBJECT"
     THEN /\ objects' =
               Append([o \in 1..Len(objects) |-> [objects[o] EXCEPT !.select = FALSE]],
                      [ SceneObject(UniqueName("Plane", SeqNames(objects)))
                          EXCEPT !.created_by = i, !.select = TRUE ])
          /\ active' = Len(objects) + 1
     ELSE UNCHANGED <<objects, active>>
  /\ pc' = "set_name"
  /\ UNCHANGED <<tiles, i, local, mode, materials, node_groups, textures, log, err>>

\* bpy.context.object.name = tile_name
SetName ==
  /\ pc = "set_name"
  /\ LET others == {objects[o].name : o \in (1..Len(objects)) \ {active}}
     IN objects' = [objects EXCEPT ![active].name = UniqueName(local.tile_name, others)]
  /\ pc' = "set_scale"
  /\ UNCHANGED <<tiles, i, local, active, mode, materials, node_groups, textures, log, err>>

\* plane_obj = bpy.data.objects[tile_name]; plane_obj.scale = plane_scale
SetScale ==
  /\ pc = "set_scale"
  /\ LET plane_obj == IndexByName(objects, local.tile_name)
     IN /\ local' = [local EXCEPT !.plane_obj = plane_obj]
        /\ objects' = [objects EXCEPT ![plane_obj].scale = local.plane_scale]
  /\ pc' = "new_material"
  /\ UNCHANGED <<tiles, i, active, mode, materials, node_groups, textures, log, err>>

\* mat_obj = bpy.data.materials.new(name="re_ground_mat"); mat_obj.use_nodes = True
NewMaterial ==
  /\ pc = "new_material"
  /\ materials' = Append(materials,
       [ name |-> UniqueName("re_ground_mat", SeqNames(materials)), created_by |-> i,
         nodes |-> DefaultNodeTree.nodes, links |-> DefaultNodeTree.links ])
  /\ local' = [local EXCEPT !.mat_obj = Len(materials) + 1]
  /\ pc' = "append_material"
  /\ UNCHANGED <<tiles, i, objects, active, mode, node_groups, textures, log, err>>

\* plane_obj.data.materials.append(mat_obj)
AppendMaterial ==
  /\ pc = "append_material"
  /\ objects' = [objects EXCEPT ![local.plane_obj].materials = Append(@, local.mat_obj)]
  /\ pc' = "remove_principled"
  /\ UNCHANGED <<tiles, i, local, active, mode, materials, node_groups, textures, log, err>>

\* nodes.remove(Utility.get_nodes_with_type(nodes, "BsdfPrincipled")[0])
RemovePrincipled ==
  /\ pc = "remove_principled"
  /\ LET m == materials[local.mat_obj]
         found == get_nodes_with_type(m.nodes, "BsdfPrincipled")
     IN IF found # <<>>
        THEN /\ LET t == nodes_remove([nodes |-> m.nodes, links |-> m.links], found[1])
                IN materials' = [materials EXCEPT ![local.mat_obj].nodes = t.nodes,
                                                  ![local.mat_obj].links = t.links]
             /\ pc' = "new_group"
             /\ UNCHANGED err
        ELSE /\ Raise("IndexError")
             /\ UNCHANGED materials
  /\ UNCHANGED <<tiles, i, local, objects, active, mode, node_groups, textures, log>>

\* group_pbr = nodes.new("ShaderNodeGroup")
NewGroupNode ==
  /\ pc = "new_group"
  /\ LET ns == nodes_new(materials[local.mat_obj].nodes, "ShaderNodeGroup")
     IN /\ materials' = [materials EXCEPT ![local.mat_obj].nodes = ns]
        /\ local' = [local EXCEPT !.group_pbr = ns[Len(ns)].name]
  /\ pc' = "set_node_tree"
  /\ UNCHANGED <<tiles, i, objects, active, mode, node_groups, textures, log, err>>

\* The lookup wrapped in try/except with `continue`: a missing group ends
\* the tile and run goes on with the next one.
SetNodeTree_continue ==
  /\ pc = "set_node_tree"
  /\ IF HasName(node_groups, "PBR Rock Shader")
     THEN /\ LET m == materials[local.mat_obj]
                 n == IndexByName(m.nodes, local.group_pbr)
             IN materials' = [materials EXCEPT ![local.mat_obj].nodes[n].node_tree =
                                IndexByName(node_groups, "PBR Rock Shader")]
          /\ pc' = "set_ao"
          /\ UNCHANGED <<i, local>>
     ELSE /\ pc' = "loop" /\ i' = i + 1 /\ local' = NoLocal
          /\ UNCHANGED materials
  /\ UNCHANGED <<tiles, objects, active, mode, node_groups, textures, log, err>>

\* group_pbr.node_tree = bpy.data.node_groups['PBR Rock Shader']
SetNodeTree ==
  /\ pc = "set_node_tree"
  /\ IF HasName(node_groups, "PBR Rock Shader")
     THEN /\ LET m == materials[local.mat_obj]
                 n == IndexByName(m.nodes, local.group_pbr)
             IN materials' = [materials EXCEPT ![local.mat_obj].nodes[n].node_tree =
                                IndexByName(node_groups, "PBR Rock Shader")]
          /\ pc' = "set_ao"
          /\ UNCHANGED err
     ELSE /\ Raise("KeyError node_groups")
          /\ UNCHANGED materials
  /\ UNCHANGED <<tiles, i, local, objects, active, mode, node_groups, textures, log>>

\* group_pbr.inputs["AO"].default_value = ao
SetAO ==
  /\ pc = "set_ao"
  /\ LET m == materials[local.mat_obj]
         n == IndexByName(m.nodes, local.group_pbr)
     IN materials' = [materials EXCEPT ![local.mat_obj].nodes[n].ao = local.ao]
  /\ pc' = "link_output"
  /\ UNCHANGED <<tiles, i, local, objects, active, mode, node_groups, textures, log, err>>

\* output_node = Utility.get_nodes_with_type(nodes, 'OutputMaterial')[0]
\* links.new(group_pbr.outputs['Shader'], output_node.inputs['Surface'])
LinkOutput ==
  /\ pc = "link_output"
  /\ LET m == materials[local.mat_obj]
         found == get_nodes_with_type(m.nodes, "OutputMaterial")
     IN IF found # <<>>
        THEN /\ materials' = [materials EXCEPT ![local.mat_obj].links =
                   links_new(@, local.group_pbr, "Shader", m.nodes[found[1]].name, "Surface")]
             /\ local' = [local EXCEPT !.output_node = m.nodes[found[1]].name, !.call = 1]
             /\ pc' = "create_node"
             /\ UNCHANGED err
        ELSE /\ Raise("IndexError")
             /\ UNCHANGED <<materials, local>>
  /\ UNCHANGED <<tiles, i, objects, active, mode, node_groups, textures, log>>

\* self._create_node(nodes, links, map_type, in_point), four times
CreateNode ==
  /\ pc = "create_node"
  /\ LET m == materials[local.mat_obj]
         t == create_node([nodes |-> m.nodes, links |-> m.links],
                          NodeCalls[local.call][1], NodeCalls[local.call][2])
     IN materials' = [materials EXCEPT ![local.mat_obj].nodes = t.nodes,
                                       ![local.mat_obj].links = t.links]
  /\ IF local.call < Len(NodeCalls)
     THEN local' = [local EXCEPT !.call = @ + 1] /\ pc' = pc
     ELSE local' = [local EXCEPT !.call = 0] /\ pc' = "mode_set"
  /\ UNCHANGED <<tiles, i, objects, active, mode, node_groups, textures, log, err>>

\* bpy.ops.object.mode_set(mode='EDIT')
ModeSetEdit ==
  /\ pc = "mode_set"
  /\ mode' = mode_set(mode, "EDIT")
  /\ pc' = "subdivide"
  /\ UNCHANGED <<tiles, i, local, objects, active, materials, node_groups, textures, log, err>>

\* bpy.ops.mesh.subdivide(number_cuts=subdivision_cuts): an edit-mode
\* operator on the mesh of the active object.
Subdivide ==
  /\ pc = "subdivide"
  /\ IF mode = "EDIT"
     THEN /\ objects' = [objects EXCEPT ![active].cuts = local.subdivision_cuts]
          /\ pc' = "add_subsurf"
          /\ UNCHANGED err
     ELSE /\ Raise("RuntimeError poll")
          /\ UNCHANGED objects
  /\ UNCHANGED <<tiles, i, local, active, mode, materials, node_groups, textures, log>>

\* bpy.ops.object.modifier_add(type="SUBSURF")
ModifierAddSubsurf ==
  /\ pc = "add_subsurf"
  /\ objects' = [objects EXCEPT ![active].modifiers = Append(@, NewModifier(@, "SUBSURF"))]
  /\ pc' = "add_displace"
  /\ UNCHANGED <<tiles, i, local, active, mode, materials, node_groups, textures, log, err>>

\* bpy.ops.object.modifier_add(type="DISPLACE")
ModifierAddDisplace ==
  /\ pc = "add_displace"
  /\ objects' = [objects EXCEPT ![active].modifiers = Append(@, NewModifier(@, "DISPLACE"))]
  /\ pc' = "new_texture"
  /\ UNCHANGED <<tiles, i, local, active, mode, materials, node_groups, textures, log, err>>

\* texture_name = tile_name + "_texture"
\* texture = bpy.data.textures.new(name=texture_name, type="IMAGE")
NewTexture ==
  /\ pc = "new_texture"
  /\ LET texture_name == local.tile_name \o "_texture"
     IN /\ textures' = Append(textures,
                [ name |-> UniqueName(texture_name, SeqNames(textures)),
                  type |-> "IMAGE", created_by |-> i ])
        /\ local' = [local EXCEPT !.texture_name = texture_name,
                                  !.texture = Len(textures) + 1]
  /\ pc' = "set_texture"
  /\ UNCHANGED <<tiles, i, objects, active, mode, materials, node_groups, log, err>>

\* plane_obj.modifiers['Displace'].texture = bpy.data.textures[texture_name]
SetDisplaceTexture ==
  /\ pc = "set_texture"
  /\ LET mods == objects[local.plane_obj].modifiers
     IN IF HasName(mods, "Displace")
        THEN /\ objects' = [objects EXCEPT
                  ![local.plane_obj].modifiers[ModIndex(mods, "Displace")].texture =
                     IndexByName(textures, local.texture_name)]
             /\ pc' = "set_texture_coords"
             /\ UNCHANGED err
        ELSE /\ Raise("KeyError modifiers")
             /\ UNCHANGED objects
  /\ UNCHANGED <<tiles, i, local, active, mode, materials, node_groups, textures, log>>

\* plane_obj.modifiers['Displace'].texture_coords = 'UV'
SetTextureCoords ==
  /\ pc = "set_texture_coords"
  /\ LET mods == objects[local.plane_obj].modifiers
     IN objects' = [objects EXCEPT
          ![local.plane_obj].modifiers[ModIndex(mods, "Displace")].texture_coords = "UV"]
  /\ pc' = "editmode_toggle"
  /\ UNCHANGED <<tiles, i, local, active, mode, materials, node_groups, textures, log, err>>

\* bpy.ops.object.editmode_toggle()
EditmodeToggle ==
  /\ pc = "editmode_toggle"
  /\ mode' = editmode_toggle(mode)
  /\ pc' = "transform_apply"
  /\ UNCHANGED <<tiles, i, local, objects, active, materials, node_groups, textures, log, err>>

\* bpy.ops.object.transform_apply(location=False, rotation=False, scale=True):
\* an object-mode operator; the scale of every selected object goes into
\* its mesh and is reset to 1.
TransformApply ==
  /\ pc = "transform_apply"
  /\ IF mode = "OBJECT"
     THEN /\ objects' = [o \in 1..Len(objects) |->
                 IF objects[o].select
                 THEN [objects[o] EXCEPT !.mesh_scale = VecMul(@, objects[o].scale),
                                         !.scale = <<1, 1, 1>>]
                 ELSE objects[o]]
          /\ pc' = "set_render_levels"
          /\ UNCHANGED err
     ELSE /\ Raise("RuntimeError poll")
          /\ UNCHANGED objects
  /\ UNCHANGED <<tiles, i, local, active, mode, materials, node_groups, textures, log>>

\* bpy.context.object.modifiers["Subdivision"].render_levels = subdivision_render_levels
SetRenderLevels ==
  /\ pc = "set_render_levels"
  /\ LET mods == objects[active].modifiers
     IN objects' = [objects EXCEPT
          ![active].modifiers[ModIndex(mods, "Subdivision")].render_levels =
             local.subdivision_render_levels]
  /\ pc' = "set_strength"
  /\ UNCHANGED <<tiles, i, local, active, mode, materials, node_groups, textures, log, err>>

\* bpy.context.object.modifiers["Displace"].strength = displacement_strength
SetStrength ==
  /\ pc = "set_strength"
  /\ LET mods == objects[active].modifiers
     IN objects' = [objects EXCEPT
          ![active].modifiers[ModIndex(mods, "Displace")].strength =
             local.displacement_strength]
  /\ pc' = "set_physics"
  /\ UNCHANGED <<tiles, i, local, active, mode, materials, node_groups, textures, log, err>>

\* plane_obj["physics"] = False, then back in run: the next tile
SetPhysics ==
  /\ pc = "set_physics"
  /\ objects' = [objects EXCEPT ![local.plane_obj].props =
                   [k \in (DOMAIN @) \cup {"physics"} |->
                      IF k = "physics" THEN FALSE ELSE @[k]]]
  /\ local' = NoLocal
  /\ i' = i + 1
  /\ pc' = "loop"
  /\ UNCHANGED <<tiles, active, mode, materials, node_groups, textures, log, err>>

Next ==
  \/ RunTile \/ RunSkipTile \/ RunReturn
  \/ LoadShader
  \/ GetSettings \/ PrimitivePlaneAdd \/ SetName \/ SetScale
  \/ NewMaterial \/ AppendMaterial \/ RemovePrincipled
  \/ NewGroupNode \/ SetNodeTree \/ SetAO \/ LinkOutput \/ CreateNode
  \/ ModeSetEdit \/ Subdivide \/ ModifierAddSubsurf \/ ModifierAddDisplace
  \/ NewTexture \/ SetDisplaceTexture \/ SetTextureCoords
  \/ EditmodeToggle \/ TransformApply
  \/ SetRenderLevels \/ SetStrength \/ SetPhysics

Spec == Init /\ [][Next]_vars

(***************************************************************************)
(* Properties                                                              *)
(***************************************************************************)

NonEmpty(j) == DOMAIN tiles[j] # {}

\* The name a tile asks for: its tile_name, else the documented default.
WantedName(j) ==
  IF "tile_name" \in DOMAIN tiles[j] THEN tiles[j]["tile_name"] ELSE DocTileName

\* What a tile asks for under a key: its value, else the documented default.
Wanted(j, key, documented) ==
  IF key \in DOMAIN tiles[j] THEN tiles[j][key] ELSE documented

\* The objects, materials and textures a tile's calls created.
PlanesOf(j) == {o \in 1..Len(objects) : objects[o].created_by = j}
MaterialsOf(j) == {m \in 1..Len(materials) : materials[m].created_by = j}
TexturesOf(j) == {t \in 1..Len(textures) : textures[t].created_by = j}

PlanesCreated == {o \in 1..Len(objects) : objects[o].created_by # 0}

NodesOfType(m, type) ==
  {n \in 1..Len(materials[m].nodes) : materials[m].nodes[n].type = type}

ModsOfType(o, type) ==
  {k \in 1..Len(objects[o].modifiers) : objects[o].modifiers[k].type = type}

\* Statements of _construct_ground_plane from the plane_obj lookup on.
AfterLookup ==
  {"new_material", "append_material", "remove_principled", "new_group",
   "set_node_tree", "set_ao", "link_output", "create_node", "mode_set",
   "subdivide", "add_subsurf", "add_displace", "new_texture", "set_texture",
   "set_texture_coords", "editmode_toggle", "transform_apply",
   "set_render_levels", "set_strength", "set_physics"}

\* Statements after the four _create_node calls.
AfterNodes ==
  {"mode_set", "subdivide", "add_subsurf", "add_displace", "new_texture",
   "set_texture", "set_texture_coords", "editmode_toggle", "transform_apply",
   "set_render_levels", "set_strength", "set_physics"}

\* Statements between mode_set(mode='EDIT') and editmode_toggle().
InEdit ==
  {"subdivide", "add_subsurf", "add_displace", "new_texture", "set_texture",
   "set_texture_coords", "editmode_toggle"}

\* Every other statement of a run that has not raised.
InObject ==
  {"loop", "done", "load_shader", "get_settings", "plane_add", "set_name", "set_scale"}
  \cup (AfterLookup \ InEdit)

(* C1 ---------------------------------------------------------------------*)

\* C1: when a tile omits plane_scale, the plane _construct_ground_plane
\* creates gets the documented default scale [10, 10, 1].
C1_DocumentedScale ==
  (pc = "new_material" /\ "plane_scale" \notin DOMAIN tiles[i])
    => \A o \in PlanesOf(i) : objects[o].scale = DocPlaneScale

(* C2 ---------------------------------------------------------------------*)

\* C2: a constructed tile carries, for every optional key, the supplied
\* value, else the documented default: cuts of the mesh, render_levels of
\* the Subdivision modifier, strength of the Displace modifier, the name of
\* the plane, and the AO input of the shader group node.
C2_DefaultsApplied ==
  \A j \in 1..Len(tiles) : (j < i /\ NonEmpty(j)) =>
    /\ PlanesOf(j) # {}
    /\ \A o \in PlanesOf(j) :
         /\ objects[o].cuts = Wanted(j, "subdivision_cuts", DocSubdivisionCuts)
         /\ \E k \in ModsOfType(o, "SUBSURF") :
              /\ objects[o].modifiers[k].name = "Subdivision"
              /\ objects[o].modifiers[k].render_levels =
                   Wanted(j, "subdivision_render_levels", DocSubdivisionRenderLevels)
         /\ \E k \in ModsOfType(o, "DISPLACE") :
              /\ objects[o].modifiers[k].name = "Displace"
              /\ objects[o].modifiers[k].strength =
                   Wanted(j, "displacement_strength", DocDisplacementStrength)
         /\ objects[o].name = WantedName(j)
    /\ \A m \in MaterialsOf(j) : \A n \in NodesOfType(m, "ShaderNodeGroup") :
         materials[m].nodes[n].ao = Wanted(j, "AO", DocAO)

(* C3 ---------------------------------------------------------------------*)

Call(op, j) == [op |-> op, tile |-> j]

\* The calls of a run that has finished with tiles 1..n.
RECURSIVE RunLog(_)
RunLog(n) ==
  IF n = 0 THEN <<>>
  ELSE RunLog(n - 1) \o
       (IF NonEmpty(n) THEN <<Call("load", n), Call("construct", n)>> ELSE <<>>)

C3_Calls ==
  /\ pc \in {"loop", "done"} =>
       /\ log = RunLog(i - 1)
       /\ Cardinality(PlanesCreated) = Cardinality({j \in 1..(i - 1) : NonEmpty(j)})
  /\ pc = "done" => i = Len(tiles) + 1
  /\ pc = "load_shader" => (NonEmpty(i) /\ log = RunLog(i - 1))
  /\ pc = "get_settings" =>
       (NonEmpty(i) /\ log = RunLog(i - 1) \o <<Call("load", i)>>
          /\ PlanesOf(i) = {})
  /\ pc \in {"plane_add", "set_name", "set_scale"} \cup AfterLookup =>
       (NonEmpty(i) /\ log = RunLog(i))

C3_Skip ==
  (pc = "loop" /\ (i > Len(tiles) \/ ~NonEmpty(i))) => (host' = host /\ log' = log)

\* C3: run takes the tiles in list order; each non-empty tile gets exactly
\* one _load_shader and then exactly one _construct_ground_plane, before
\* anything of the next tile; an empty tile or an empty list changes
\* nothing in the host; a finished run has created one plane per non-empty tile.
C3_RunOrder == [](C3_Calls) /\ [][C3_Skip]_vars

C3_Witness ==
  /\ pc = "done" /\ Len(tiles) = 2
  /\ ~NonEmpty(1) /\ NonEmpty(2)
  /\ Cardinality(PlanesCreated) = 1
  /\ log = <<Call("load", 2), Call("construct", 2)>>

(* C4 ---------------------------------------------------------------------*)

\* The node tree of material m as _construct_ground_plane leaves it.
GroundGraph(m) ==
  LET ns == materials[m].nodes
      ls == materials[m].links
      groups == NodesOfType(m, "ShaderNodeGroup")
      outs == NodesOfType(m, "ShaderNodeOutputMaterial")
      texs == NodesOfType(m, "ShaderNodeTexImage")
      norms == NodesOfType(m, "ShaderNodeNormalMap")
      labelled(l) == {t \in texs : ns[t].label = l}
  IN /\ NodesOfType(m, "ShaderNodeBsdfPrincipled") = {}
     /\ Cardinality(groups) = 1 /\ Cardinality(outs) = 1
     /\ Cardinality(texs) = 4 /\ Cardinality(norms) = 1
     /\ Cardinality(ls) = 6
     /\ \A g \in groups, out \in outs, nm \in norms :
          /\ ns[g].node_tree # 0
          /\ node_groups[ns[g].node_tree].name = "PBR Rock Shader"
          /\ Link(ns[g].name, "Shader", ns[out].name, "Surface") \in ls
          /\ \A c \in {<<"color", "Color">>, <<"roughness", "Roughness">>,
                       <<"reflection", "Reflection">>} :
               /\ Cardinality(labelled(c[1])) = 1
               /\ \A t \in labelled(c[1]) :
                    Link(ns[t].name, "Color", ns[g].name, c[2]) \in ls
          /\ Cardinality(labelled("normal")) = 1
          /\ \A t \in labelled("normal") :
               Link(ns[t].name, "Color", ns[nm].name, "Color") \in ls
          /\ Link(ns[nm].name, "Normal", ns[g].name, "Normal") \in ls
     /\ \A l1, l2 \in ls :
          (l1.to_node = l2.to_node /\ l1.to_socket = l2.to_socket) => l1 = l2

\* C4: once the four _create_node calls of a tile are done, and for every
\* tile constructed before, the tile's material tree has no Principled
\* BSDF node, Material Output.Surface fed by the group's Shader output,
\* Color/Roughness/Reflection each fed by the Color output of its own
\* labelled Image Texture node, Normal fed by a Normal Map node fed by the
\* Image Texture labelled normal; four Image Texture nodes, one Normal Map
\* node, six links, at most one link into any input.
C4_MaterialGraph ==
  \A m \in 1..Len(materials) :
    (materials[m].created_by < i \/ (pc \in AfterNodes /\ m = local.mat_obj))
      => GroundGraph(m)

C4_Witness ==
  /\ pc = "done" /\ Len(materials) = 2
  /\ GroundGraph(1) /\ GroundGraph(2)

(* C5 ---------------------------------------------------------------------*)

\* The module is used for several tiles, every tile is given a tile_name
\* of its own, and no object of the scene carried one of these names
\* before run.
GivenDistinctFreshNames ==
  /\ Cardinality({j \in 1..Len(tiles) : NonEmpty(j)}) >= 2
  /\ \A j \in 1..Len(tiles) : NonEmpty(j) => "tile_name" \in DOMAIN tiles[j]
  /\ \A j, k \in 1..Len(tiles) :
       (NonEmpty(j) /\ NonEmpty(k) /\ j # k) => WantedName(j) # WantedName(k)
  /\ \A j \in 1..Len(tiles) : \A o \in 1..Len(objects) :
       (NonEmpty(j) /\ objects[o].created_by = 0) => objects[o].name # WantedName(j)

\* Plane o is the plane of tile j and carries what tile j configures, with
\* a material and a displacement texture of its own.
OwnPlane(j, o) ==
  /\ PlanesOf(j) = {o}
  /\ objects[o].name = WantedName(j)
  /\ Len(objects[o].materials) = 1
  /\ objects[o].materials[1] \in MaterialsOf(j)
  /\ Cardinality(ModsOfType(o, "SUBSURF")) = 1
  /\ Cardinality(ModsOfType(o, "DISPLACE")) = 1
  /\ Len(objects[o].modifiers) = 2
  /\ \A k \in ModsOfType(o, "DISPLACE") :
       /\ objects[o].modifiers[k].texture \in TexturesOf(j)
       /\ textures[objects[o].modifiers[k].texture].name = WantedName(j) \o "_texture"
  /\ objects[o].mesh_scale = Wanted(j, "plane_scale", DefaultPlaneScale)
  /\ objects[o].scale = <<1, 1, 1>>
  /\ objects[o].props = [k \in {"physics"} |-> FALSE]

\* C5: with several tiles, each given its own tile_name, pairwise distinct
\* and carried by no scene object, after run every tile has its own plane
\* of exactly that name, its own material, its own displacement texture
\* named tile_name + "_texture", one Subdivision and one Displace modifier,
\* its scale applied into the mesh and physics = False.
C5_OwnPlanePerTile ==
  (pc = "done" /\ GivenDistinctFreshNames) =>
     \A j \in 1..Len(tiles) : NonEmpty(j) => \E o \in 1..Len(objects) : OwnPlane(j, o)

(* C6 ---------------------------------------------------------------------*)

C6_Left ==
  pc = "error" =>
    /\ err # ""
    /\ \A k \in 1..Len(log) : log[k].tile <= i
    /\ \A j \in 1..Len(tiles) : j > i => (PlanesOf(j) = {} /\ MaterialsOf(j) = {})
    /\ \A j \in 1..(i - 1) : NonEmpty(j) =>
         /\ \E o \in PlanesOf(j) : Len(objects[o].modifiers) = 2
         /\ \E m \in MaterialsOf(j) : GroundGraph(m)
    /\ err = "KeyError node_groups" =>
         /\ PlanesOf(i) # {}
         /\ \E m \in MaterialsOf(i) :
              /\ NodesOfType(m, "ShaderNodeBsdfPrincipled") = {}
              /\ \E o \in 1..Len(objects) :
                   \E k \in 1..Len(objects[o].materials) : objects[o].materials[k] = m

C6_Raise ==
  /\ (pc = "set_node_tree" /\ ~HasName(node_groups, "PBR Rock Shader")) =>
        (pc' = "error" /\ err' = "KeyError node_groups")
  /\ (pc # "error" /\ pc' = "error") =>
        (host' = host /\ i' = i /\ log' = log /\ tiles' = tiles)
  /\ pc = "error" => vars' = vars

\* C6: a failed lookup by name (node_groups['PBR Rock Shader'] without
\* that group in the registry) raises out of run: the raising statement
\* changes nothing in the host, nothing runs after it, no later tile is
\* imported or constructed, and what was built before stays: the earlier
\* tiles, and the failing tile's plane and its material without the
\* Principled BSDF node.
C6_NoRecovery == [](C6_Left) /\ [][C6_Raise]_vars

C6_Witness ==
  /\ pc = "error" /\ err = "KeyError node_groups"
  /\ i = 1 /\ Len(tiles) = 2 /\ NonEmpty(2)
  /\ PlanesOf(1) # {} /\ MaterialsOf(1) # {} /\ PlanesOf(2) = {}
  /\ log = <<Call("load", 1), Call("construct", 1)>>

(* C7 ---------------------------------------------------------------------*)

\* C7: in every tile of every run the object fetched by name from the
\* object registry is the host's active object, the plane this tile's
\* primitive_plane_add created.
C7_SameObject ==
  pc \in AfterLookup => (local.plane_obj = active /\ PlanesOf(i) = {active})

(* C8 ---------------------------------------------------------------------*)

\* C8: the node group a tile's group node references is the one this
\* tile's _load_shader appended, from this tile's shader_path.
C8_OwnShader ==
  \A m \in 1..Len(materials) : \A n \in NodesOfType(m, "ShaderNodeGroup") :
    materials[m].nodes[n].node_tree # 0 =>
      /\ node_groups[materials[m].nodes[n].node_tree].created_by = materials[m].created_by
      /\ node_groups[materials[m].nodes[n].node_tree].library =
           tiles[materials[m].created_by]["shader_path"]

(* C9 ---------------------------------------------------------------------*)

\* C9: the texture on the Displace modifier of a tile's plane is the
\* texture this tile's textures.new created, and texture_coords is 'UV'.
C9_OwnTexture ==
  /\ pc \in {"set_texture_coords", "editmode_toggle", "transform_apply",
             "set_render_levels", "set_strength", "set_physics"} =>
       \A o \in PlanesOf(i) : \A k \in ModsOfType(o, "DISPLACE") :
         /\ objects[o].modifiers[k].texture = local.texture
         /\ objects[o].modifiers[k].texture \in TexturesOf(i)
  /\ pc \in {"editmode_toggle", "transform_apply",
             "set_render_levels", "set_strength", "set_physics"} =>
       \A o \in PlanesOf(i) : \A k \in ModsOfType(o, "DISPLACE") :
         objects[o].modifiers[k].texture_coords = "UV"

(* C10 --------------------------------------------------------------------*)

\* C10: a run that has not raised is in OBJECT mode at the loop of run, at
\* its end and at every statement of a tile up to mode_set(mode='EDIT'), in
\* EDIT mode at mesh.subdivide, at both modifier_add calls and up to
\* editmode_toggle(), and in OBJECT mode again at transform_apply, at the
\* render_levels and strength assignments and when the tile ends.
C10_ModeOrder ==
  /\ pc \in InObject => mode = "OBJECT"
  /\ pc \in InEdit => mode = "EDIT"

C10_Witness ==
  /\ pc = "loop" /\ i = 3 /\ mode = "OBJECT"
  /\ PlanesOf(1) # {} /\ PlanesOf(2) # {}
  /\ \A o \in PlanesOf(2) : objects[o].cuts # 0 /\ Len(objects[o].modifiers) = 2

====
